---- MODULE Spec2Model ----
(***************************************************************************)
(* ansible-universe: the role build tool of src/ansible/universe.          *)
(*                                                                         *)
(* The state is the role directory (manifest, defaults file, tasks tree,   *)
(* README, dist directory), the process state of one invocation of main()  *)
(* (options, loop position, exit, working directory, stderr) and the log   *)
(* of the external processes it ran.  One action per target of main()'s    *)
(* dispatch table.                                                         *)
(*                                                                         *)
(* Conventions.  An optional value (a missing file, a missing mapping key, *)
(* Python's None) is a sequence of length 0 or 1: None or Some(v).         *)
(* A path is a record [dir, stem, ext] (os.path.join / os.path.splitext).  *)
(* A text is a sequence of tokens; a formatted string is the sequence of   *)
(* its literal and substituted parts.                                      *)
(***************************************************************************)
EXTENDS Integers, Sequences, FiniteSets, TLC

VARIABLES
    manifest,        \* meta/main.yml: None, or Some(manifest mapping)
    defaults,        \* defaults/main.yml: None, or Some(mapping name -> default)
    tasks,           \* the files under tasks/, in directory order: <<[path, doc]>>
    readme,          \* README.md: None, or Some(text)
    distdir,         \* dist/: None, or Some(set of archive names)
    tmpdir,          \* TRUE while a temporary workspace of check_syntax exists
    cwd,             \* "roledir" or "tmpdir"
    opts,            \* docopt's result: [TARGET, repository, exclude]
    excluded_paths,  \* Role.excluded_paths
    pc,              \* main's loop: index of the next target
    started,         \* the targets dispatched so far
    exit,            \* "running", "done", or the exception that ended main
    stderr,          \* the warnings lint wrote
    context,         \* the context _generate_readme last rendered: None or Some
    calls,           \* the external processes run: <<[cmd, args, rc]>>
    registry         \* utils.get_manifests(__path__): the rules, <<[requires, message]>>

vars == <<manifest, defaults, tasks, readme, distdir, tmpdir, cwd, opts,
          excluded_paths, pc, started, exit, stderr, context, calls, registry>>

-----------------------------------------------------------------------------
(* Bounds *)

MaxTargets == 3

-----------------------------------------------------------------------------
(* Optional values and small helpers *)

None == <<>>
Some(v) == <<v>>

RECURSIVE SetToSeq(_)
SetToSeq(S) == IF S = {} THEN <<>>
               ELSE LET e == CHOOSE e \in S : TRUE IN <<e>> \o SetToSeq(S \ {e})

Range(s) == {s[i] : i \in DOMAIN s}

RECURSIVE Flatten(_)
Flatten(ss) == IF ss = <<>> THEN <<>> ELSE Head(ss) \o Flatten(Tail(ss))

InsertAt(s, j, e) == SubSeq(s, 1, j) \o <<e>> \o SubSeq(s, j + 1, Len(s))

\* all sequences over S of length 1..n
RECURSIVE SeqsUpTo(_, _)
SeqsUpTo(S, n) == IF n = 0 THEN {}
                  ELSE LET shorter == SeqsUpTo(S, n - 1)
                       IN  {<<e>> : e \in S} \cup shorter
                           \cup {Append(s, e) : s \in shorter, e \in S}

-----------------------------------------------------------------------------
(* Paths: src/ansible/universe/__init__.py lines 44-49 *)

Path(dir, stem, ext) == [dir |-> dir, stem |-> stem, ext |-> ext]

DEFAULTS_PATH == Path(<<"defaults">>, "main", ".yml")
README_PATH == Path(<<>>, "README", ".md")
META_PATH == Path(<<"meta">>, "main", ".yml")
TASKSDIR == <<"tasks">>
MAINTASK_PATH == Path(TASKSDIR, "main", ".yml")
DISTDIR == Path(<<>>, "dist", "")

\* "".split(",") is [""]: the path of the empty string
EmptyPath == Path(<<>>, "", "")

\* os.path.basename(os.getcwd())
name == "myrole"

-----------------------------------------------------------------------------
(* Results of a call: a value, or the exception raised *)

Return(v) == [exc |-> "", val |-> <<v>>]
Raise(e) == [exc |-> e, val |-> <<>>]
Ok(r) == r.exc = ""
Val(r) == r.val[1]

\* "x or {}", "x or []", "x or ()": None (and the empty container) is empty
OrEmpty(o) == IF o = None THEN <<>> ELSE o[1]

-----------------------------------------------------------------------------
(* Role's properties over the manifest.  mo is unmarshall(META_PATH): None *)
(* when meta/main.yml is absent, Some(mapping) otherwise; a mapping's      *)
(* field is None when the key is missing.                                  *)

_get_manifest(mo) == mo

_get_version(mo) ==
    IF _get_manifest(mo) = None THEN Raise("TypeError")
    ELSE IF mo[1].version = None THEN Raise("KeyError")
    ELSE Return(mo[1].version[1])

\* self.manifest["galaxy_info"]
galaxy_info(mo) ==
    IF _get_manifest(mo) = None THEN Raise("TypeError")
    ELSE IF mo[1].galaxy_info = None THEN Raise("KeyError")
    ELSE Return(mo[1].galaxy_info[1])

platforms(mo) ==
    LET g == galaxy_info(mo)
    IN  IF ~Ok(g) THEN g ELSE Return(OrEmpty(Val(g).platforms))

description(mo) ==
    LET g == galaxy_info(mo)
    IN  IF ~Ok(g) THEN g
        ELSE IF Val(g).description = None THEN Raise("KeyError")
        ELSE Return(Val(g).description[1])

inconditions(mo) ==
    IF _get_manifest(mo) = None THEN Raise("AttributeError")
    ELSE Return(OrEmpty(mo[1].inconditions))

\* merge with a second pass that assigns the entry instead of filling its
\* description
merge_Overwrite(D, V) ==
    [k \in DOMAIN D \cup DOMAIN V |->
        IF k \in DOMAIN V THEN [default |-> None, description |-> Some(V[k])]
        ELSE [default |-> Some(D[k]), description |-> None]]

\* The two passes of Role.variables over the defaults D and the manifest's
\* variables V: an entry is [default, description], each None until set.
merge(D, V) ==
    LET pass1 == [k \in DOMAIN D |-> [default |-> Some(D[k]), description |-> None]]
    IN  [k \in DOMAIN D \cup DOMAIN V |->
            IF k \in DOMAIN V
            THEN IF k \in DOMAIN pass1
                 THEN [pass1[k] EXCEPT !.description = Some(V[k])]
                 ELSE [default |-> None, description |-> Some(V[k])]
            ELSE pass1[k]]

variables(do, mo) ==
    IF _get_manifest(mo) = None THEN Raise("AttributeError")
    ELSE Return(merge(OrEmpty(do), OrEmpty(mo[1].variables)))

-----------------------------------------------------------------------------
(* _generate_readme: the template rendered against the context.           *)
(* A line is the sequence of its literal and substituted parts.            *)

\* jinja2's attribute lookup: "{% for var in variables %}" iterates the keys of
\* the dict, a key is a string, and a string has no such attribute: undefined,
\* rendered as the empty string
Attr(var, attr) == ""

\* "{{ description or ... }}"
OrFallback(str, fallback) == IF str = "" THEN fallback ELSE str

\* (the template's backquotes are left out of the literal lines)
Render(ctx) ==
    LET ptfs == ctx.platforms
        keys == SetToSeq(DOMAIN ctx.variables)
    IN  << <<"<!-- THIS IS A GENERATED FILE, DO NOT EDIT -->">>,
           <<"# ", ctx.name>>,
           <<OrFallback(ctx.description, "No description (yet.)")>>,
           <<"* * *">>,
           <<"## Supported Platforms">> >>
        \o (IF ptfs = <<>>
            THEN << <<"No supported platform specified (yet.)">> >>
            ELSE [i \in DOMAIN ptfs |-> <<"  * ", ptfs[i].name>>])
        \o << <<"## Variables">>,
              <<"| Name | Default | Description |">>,
              <<"|------|---------|-------------|">> >>
        \o [i \in DOMAIN keys |->
              <<"| ", Attr(keys[i], "name"), " | ", Attr(keys[i], "default"),
                " | ", Attr(keys[i], "description"), " |">>]
        \o << <<"## Usage">>,
              <<"Read Ansible documentation at https://docs.ansible.com/playbooks_roles.html#roles.">>,
              <<"## Maintenance">>,
              <<"Install [ansible-utils](https://github.com/fclaerho/ansible-utils)">>,
              <<"and run ansible-role dist to re-generate this distribution.">>,
              <<"The following files are generated or updated based on the role manifest meta/main.yml:">>,
              <<"  * defaults/main.yml">>,
              <<"  * tasks/main.yml">>,
              <<"  * README.md">> >>

\* the value is [context, text]: what was rendered and what marshall writes
_generate_readme(do, mo) ==
    LET d == description(mo)
        p == platforms(mo)
        v == variables(do, mo)
    IN  IF ~Ok(d) THEN d
        ELSE IF ~Ok(p) THEN p
        ELSE IF ~Ok(v) THEN v
        ELSE LET ctx == [description |-> Val(d), platforms |-> Val(p),
                         variables |-> Val(v), name |-> name]
             IN  Return([context |-> ctx, text |-> Render(ctx)])

-----------------------------------------------------------------------------
(* _generate_maintask: the plays of tasks/main.yml.                        *)
(* A play is [name, fail, when, include, action], each None when the key   *)
(* is missing.                                                             *)

Play(nm, fl, wh, inc, act) ==
    [name |-> nm, fail |-> fl, when |-> wh, include |-> inc, action |-> act]

\* repr() of a list of strings: ['a', 'b']
RECURSIVE ReprItems(_)
ReprItems(strs) ==
    IF strs = <<>> THEN <<>>
    ELSE <<"'", Head(strs), "'">>
         \o (IF Tail(strs) = <<>> THEN <<>> ELSE <<", ">>)
         \o ReprItems(Tail(strs))

ReprList(strs) == <<"[">> \o ReprItems(strs) \o <<"]">>

\* the assertion play of lines 216-222
AssertionPlay(ptfs) ==
    Play(Some("assert the target platform is supported"),
         Some("unsupported platform -- please contact the role maintainer for support"),
         Some(<<"ansible_distribution not in ">>
              \o ReprList([i \in DOMAIN ptfs |-> ptfs[i].name])),
         None, None)

\* glob.glob(os.path.join(TASKSDIR, "*.yml")): the .yml files directly under
\* tasks/, in directory order
Glob(ts) ==
    LET match(e) == e.path.dir = TASKSDIR /\ e.path.ext = ".yml"
        found == SelectSeq(ts, match)
    IN  [i \in DOMAIN found |-> found[i].path]

IncludePlay(path, inc) ==
    IF path \in DOMAIN inc
    THEN Play(None, None, Some(<<inc[path]>>), Some(path), None)
    ELSE Play(None, None, None, Some(path), None)

\* _generate_maintask with the assertion play appended after the includes
_generate_maintask_AssertLast(ts, mo) ==
    LET p == platforms(mo)
        names == Glob(ts)
        inc == inconditions(mo)
    IN  IF ~Ok(p) THEN p
        ELSE Return([i \in DOMAIN names |-> IncludePlay(names[i], Val(inc))]
                    \o (IF Val(p) # <<>> THEN <<AssertionPlay(Val(p))>> ELSE <<>>))

_generate_maintask(ts, mo) ==
    LET p == platforms(mo)
        names == Glob(ts)
        inc == inconditions(mo)
    IN  IF ~Ok(p) THEN p
        ELSE Return((IF Val(p) # <<>> THEN <<AssertionPlay(Val(p))>> ELSE <<>>)
                    \o [i \in DOMAIN names |-> IncludePlay(names[i], Val(inc))])

-----------------------------------------------------------------------------
(* The tasks tree *)

HasFile(ts, path) == \E i \in DOMAIN ts : ts[i].path = path

FileDoc(ts, path) == LET i == CHOOSE i \in DOMAIN ts : ts[i].path = path IN ts[i].doc

\* marshall(obj, path) with overwrite: a new file takes directory position j
WriteFile(ts, path, doc, j) ==
    IF HasFile(ts, path)
    THEN [i \in DOMAIN ts |-> IF ts[i].path = path THEN [path |-> path, doc |-> doc] ELSE ts[i]]
    ELSE InsertAt(ts, j, [path |-> path, doc |-> doc])

\* utils.remove(path)
RemoveFile(ts, path) == LET keep(e) == e.path # path IN SelectSeq(ts, keep)

-----------------------------------------------------------------------------
(* lint *)

\* os.walk(TASKSDIR): tasks/ itself first, then its subdirectories
Walk(ts) ==
    LET top(e) == e.path.dir = TASKSDIR
        below(e) == e.path.dir # TASKSDIR
    IN  SelectSeq(ts, top) \o SelectSeq(ts, below)

\* the keys a play has
Keys(play) == {k \in {"name", "fail", "when", "include", "action"} : play[k] # None}

\* manifest["predicate"](play): a rule holds of a play that has the keys it requires
predicate(rule, play) == rule.requires \subseteq Keys(play)

\* PlayName numbering the plays from 0
PlayName_ZeroBased(play, idx) ==
    IF play.name = None THEN [text |-> "play#", idx |-> idx]
    ELSE [text |-> play.name[1], idx |-> 0]

\* play.get("name", "play#%i" % (idx + 1))
PlayName(play, idx) ==
    IF play.name = None THEN [text |-> "play#", idx |-> idx + 1]
    ELSE [text |-> play.name[1], idx |-> 0]

\* the warnings of one play, enumerate()'s idx counting from 0
LintPlay(path, play, idx, reg) ==
    Flatten([r \in DOMAIN reg |->
        IF ~predicate(reg[r], play)
        THEN <<[path |-> path, name |-> PlayName(play, idx), message |-> reg[r].message]>>
        ELSE <<>>])

LintFile(e, reg) ==
    IF e.path.ext = ".yml"
    THEN Flatten([i \in DOMAIN e.doc |-> LintPlay(e.path, e.doc[i], i - 1, reg)])
    ELSE <<>>

lint(ts, reg) ==
    LET files == Walk(ts)
    IN  Flatten([f \in DOMAIN files |-> LintFile(files[f], reg)])

-----------------------------------------------------------------------------
(* main: the dispatch loop of lines 329-339 *)

Targets == {"init", "dist", "check", "package", "publish", "distclean"}

\* (opts["--exclude"] or "").split(",")
Split(exclude) == IF exclude = None THEN {EmptyPath} ELSE Range(exclude[1])

\* the except clause of lines 338-339
Handle(exc) == IF exc \in {"utils.Error", "Error"} THEN "SystemExit" ELSE exc

\* the process's exit status: 0, or 1 for SystemExit(message) and for an
\* exception nothing catches
ExitStatus(e) == IF e = "done" THEN 0 ELSE 1

\* the loop takes its next target
Dispatch(target) ==
    /\ exit = "running"
    /\ pc <= Len(opts.TARGET)
    /\ opts.TARGET[pc] = target
    /\ started' = Append(started, target)

\* Finish with the exception swallowed inside the loop
Finish_Continue(exc) == pc' = pc + 1 /\ exit' = "running"

\* the target returned (exc = "") or raised exc
Finish(exc) ==
    IF exc = "" THEN pc' = pc + 1 /\ exit' = "running"
    ELSE pc' = pc /\ exit' = Handle(exc)

\* utils.check_call: the process has run and returned rc
Called(cmd, args, rc) == calls' = Append(calls, [cmd |-> cmd, args |-> args, rc |-> rc])

\* utils.check_call raises on a non-zero return
CheckCall(rc) == IF rc = 0 THEN "" ELSE "utils.Error"

-----------------------------------------------------------------------------
(* init *)

\* meta/main.yml as ansible-galaxy writes it
ScaffoldManifest ==
    [version |-> None,
     galaxy_info |-> Some([description |-> Some("your description"), platforms |-> None]),
     variables |-> None,
     inconditions |-> None]

\* the directories of the scaffold that os.rename cannot move up, their
\* destination being a directory that is not empty
Conflicts ==
    {d \in {"defaults", "meta", "tasks"} :
        \/ d = "defaults" /\ defaults # None
        \/ d = "meta" /\ manifest # None
        \/ d = "tasks" /\ tasks # <<>>}

\* _set_version
SetVersion(m, str) == [m EXCEPT !.version = Some(str)]

init ==
    /\ Dispatch("init")
    /\ \E rc \in {0, 1} :
        /\ Called("ansible-galaxy", <<"init", name, "--force">>, rc)
        /\ IF rc # 0
           THEN Finish(CheckCall(rc)) /\ UNCHANGED <<manifest, defaults>>
           ELSE IF Conflicts = {}
           THEN /\ manifest' = Some(SetVersion(ScaffoldManifest, "0.0.1"))
                /\ defaults' = Some(<<>>)
                /\ Finish("")
           ELSE \E moved \in SUBSET ({"defaults", "meta", "tasks"} \ Conflicts) :
                /\ manifest' = IF "meta" \in moved THEN Some(ScaffoldManifest) ELSE manifest
                /\ defaults' = IF "defaults" \in moved THEN Some(<<>>) ELSE defaults
                /\ Finish("OSError")
    /\ UNCHANGED <<tasks, readme, distdir, tmpdir, cwd, opts, excluded_paths,
                   stderr, context, registry>>

-----------------------------------------------------------------------------
(* dist *)

\* ShouldGenerate without the exclusion test
ShouldGenerate_Always(path) == TRUE

\* line 242
ShouldGenerate(path) == path \notin excluded_paths

\* one iteration of dist's loop over a state st = [readme, tasks, context, exc]
GenReadme(st) ==
    IF st.exc # "" \/ ~ShouldGenerate(README_PATH) THEN st
    ELSE LET r == _generate_readme(defaults, manifest)
         IN  IF Ok(r)
             THEN [st EXCEPT !.readme = Some(Val(r).text), !.context = Some(Val(r).context)]
             ELSE [st EXCEPT !.exc = r.exc]

GenMaintask(st, j) ==
    IF st.exc # "" \/ ~ShouldGenerate(MAINTASK_PATH) THEN st
    ELSE LET r == _generate_maintask(st.tasks, manifest)
         IN  IF Ok(r)
             THEN [st EXCEPT !.tasks = WriteFile(st.tasks, MAINTASK_PATH, Val(r), j)]
             ELSE [st EXCEPT !.exc = r.exc]

\* the dict of line 238 is iterated in one of its two orders
dist ==
    /\ Dispatch("dist")
    /\ \E readmeFirst \in BOOLEAN, j \in 0..Len(tasks) :
        LET st0 == [readme |-> readme, tasks |-> tasks, context |-> context, exc |-> ""]
            st == IF readmeFirst THEN GenMaintask(GenReadme(st0), j)
                  ELSE GenReadme(GenMaintask(st0, j))
        IN  /\ readme' = st.readme
            /\ tasks' = st.tasks
            /\ context' = st.context
            /\ Finish(st.exc)
    /\ UNCHANGED <<manifest, defaults, distdir, tmpdir, cwd, opts, excluded_paths,
                   stderr, calls, registry>>

-----------------------------------------------------------------------------
(* check *)

\* check_syntax, lines 247-277: the workspace is made, the process changes
\* into it and runs the syntax checker; the lines after check_call run only
\* when it returned
check_syntax(rc) ==
    /\ Called("ansible-playbook", <<"playbook.yml", "--syntax-check">>, rc)
    /\ IF CheckCall(rc) = ""
       THEN cwd' = cwd /\ tmpdir' = FALSE
       ELSE cwd' = "tmpdir" /\ tmpdir' = TRUE

check ==
    /\ Dispatch("check")
    /\ \E rc \in {0, 1} :
        /\ check_syntax(rc)
        /\ IF CheckCall(rc) = ""
           THEN stderr' = stderr \o lint(tasks, registry) /\ Finish("")
           ELSE stderr' = stderr /\ Finish(CheckCall(rc))
    /\ UNCHANGED <<manifest, defaults, tasks, readme, distdir, opts, excluded_paths,
                   context, registry>>

-----------------------------------------------------------------------------
(* package and publish *)

\* Basename without the version
Basename_NoVersion(version) == <<name, ".tgz">>

\* "%s-%s.tgz" % (self.name, self.version)
Basename(version) == <<name, "-", version, ".tgz">>

\* os.path.join(DISTDIR, basename)
_get_package_path(mo) ==
    LET v == _get_version(mo)
    IN  IF ~Ok(v) THEN v ELSE Return(<<DISTDIR.stem, "/">> \o Basename(Val(v)))

\* lines 303-304
EnsureDistdir(dd) == IF dd = None THEN Some({}) ELSE dd

package ==
    /\ Dispatch("package")
    /\ LET dd == EnsureDistdir(distdir)
           path == _get_package_path(manifest)
       IN  IF ~Ok(path)
           THEN distdir' = dd /\ Finish(path.exc) /\ UNCHANGED calls
           ELSE \E rc \in {0, 1}, partial \in BOOLEAN :
                /\ Called("tar", <<"czf">> \o Val(path) \o <<"--exclude", DISTDIR.stem, ".">>, rc)
                /\ distdir' = IF rc = 0 \/ partial
                              THEN Some(dd[1] \cup {SubSeq(Val(path), 3, Len(Val(path)))})
                              ELSE dd
                /\ Finish(CheckCall(rc))
    /\ UNCHANGED <<manifest, defaults, tasks, readme, tmpdir, cwd, opts, excluded_paths,
                   stderr, context, registry>>

publish ==
    /\ Dispatch("publish")
    /\ LET repository_url == opts.repository
           path == _get_package_path(manifest)
       IN  IF repository_url = None
           THEN Finish("Error") /\ UNCHANGED calls
           ELSE IF ~Ok(path)
           THEN Finish(path.exc) /\ UNCHANGED calls
           ELSE \E rc \in {0, 1} :
                /\ Called("curl", <<"-k", "-T">> \o Val(path) \o repository_url, rc)
                /\ Finish(CheckCall(rc))
    /\ UNCHANGED <<manifest, defaults, tasks, readme, distdir, tmpdir, cwd, opts,
                   excluded_paths, stderr, context, registry>>

-----------------------------------------------------------------------------
(* distclean *)

\* CleanedPaths without the distribution directory
CleanedPaths_NoDist == {MAINTASK_PATH, README_PATH}

\* line 313
CleanedPaths == {MAINTASK_PATH, README_PATH, DISTDIR}

\* line 314
ShouldRemove(path, exists) == path \in CleanedPaths /\ path \notin excluded_paths /\ exists

distclean ==
    /\ Dispatch("distclean")
    /\ tasks' = IF ShouldRemove(MAINTASK_PATH, HasFile(tasks, MAINTASK_PATH))
                THEN RemoveFile(tasks, MAINTASK_PATH) ELSE tasks
    /\ readme' = IF ShouldRemove(README_PATH, readme # None) THEN None ELSE readme
    /\ distdir' = IF ShouldRemove(DISTDIR, distdir # None) THEN None ELSE distdir
    /\ Finish("")
    /\ UNCHANGED <<manifest, defaults, tmpdir, cwd, opts, excluded_paths,
                   stderr, context, calls, registry>>

-----------------------------------------------------------------------------
(* main returns after the last target *)

main_return ==
    /\ exit = "running"
    /\ pc > Len(opts.TARGET)
    /\ exit' = "done"
    /\ UNCHANGED <<manifest, defaults, tasks, readme, distdir, tmpdir, cwd, opts,
                   excluded_paths, pc, started, stderr, context, calls, registry>>

Next == init \/ dist \/ check \/ package \/ publish \/ distclean \/ main_return

-----------------------------------------------------------------------------
(* The inputs: role directories and command lines *)

Manifest(version, gi, vs, inc) ==
    [version |-> version, galaxy_info |-> gi, variables |-> vs, inconditions |-> inc]

InstallPath == Path(TASKSDIR, "install", ".yml")
ConfigPath == Path(<<"tasks", "sub">>, "config", ".yml")
NotesPath == Path(TASKSDIR, "notes", ".txt")

Debian == [name |-> "Debian", versions |-> <<"all">>]
Ubuntu == [name |-> "Ubuntu", versions |-> <<"all">>]

\* the manifest right after init
InitializedManifest == SetVersion(ScaffoldManifest, "0.0.1")

FullManifest ==
    Manifest(Some("1.2"),
             Some([description |-> Some("web server"), platforms |-> Some(<<Debian, Ubuntu>>)]),
             Some([k \in {"port", "user"} |-> IF k = "port" THEN "listening port" ELSE "run as"]),
             Some([k \in {InstallPath} |-> "ansible_os_family == 'Debian'"]))

Manifests ==
    {None,
     Some(InitializedManifest),
     Some(FullManifest),
     Some(ScaffoldManifest),
     Some(Manifest(Some("0.3"), Some([description |-> None, platforms |-> Some(<<Debian>>)]), None, None)),
     Some(Manifest(Some("0.3"), None, None, None))}

File(path, doc) == [path |-> path, doc |-> doc]

InstallDoc ==
    << Play(Some("install package"), None, None, None, Some("apt")),
       Play(None, None, Some(<<"start">>), None, Some("service")) >>

ConfigDoc == << Play(None, None, None, None, Some("template")) >>

UserMaintask == << Play(Some("hand written"), None, None, Some(InstallPath), None) >>

UserReadme == << <<"my own notes">> >>

\* a role directory besides its manifest: [defaults, tasks, readme, distdir]
Layout(d, ts, r, dd) == [defaults |-> d, tasks |-> ts, readme |-> r, distdir |-> dd]

Layouts ==
    {Layout(None, <<>>, None, None),
     Layout(Some(<<>>), <<>>, None, None),
     Layout(Some([k \in {"port"} |-> "80"]),
            <<File(InstallPath, InstallDoc), File(ConfigPath, ConfigDoc)>>, None, None),
     Layout(Some([k \in {"port"} |-> "80"]),
            <<File(NotesPath, <<>>), File(MAINTASK_PATH, UserMaintask), File(InstallPath, InstallDoc)>>,
            Some(UserReadme), Some({<<"notes.txt">>}))}

NameRule == [requires |-> {"name"}, message |-> "play has no name"]
ActionRule == [requires |-> {"action"}, message |-> "play runs nothing"]
WhenRule == [requires |-> {"name", "when"}, message |-> "play is unconditional"]

Excludes ==
    {None, Some(<<README_PATH>>), Some(<<MAINTASK_PATH>>), Some(<<DISTDIR>>),
     Some(<<README_PATH, MAINTASK_PATH, DISTDIR>>)}

Options(targets, repos, excludes) ==
    [TARGET : targets, repository : repos, exclude : excludes]

\* the state when main enters its loop
InitWith(manifests, layouts, registries, options) ==
    /\ manifest \in manifests
    /\ \E l \in layouts :
        /\ defaults = l.defaults
        /\ tasks = l.tasks
        /\ readme = l.readme
        /\ distdir = l.distdir
    /\ registry \in registries
    /\ opts \in options
    /\ excluded_paths = Split(opts.exclude)
    /\ tmpdir = FALSE
    /\ cwd = "roledir"
    /\ pc = 1
    /\ started = <<>>
    /\ exit = "running"
    /\ stderr = <<>>
    /\ context = None
    /\ calls = <<>>

Init ==
    InitWith(Manifests, Layouts, {<<NameRule>>},
             Options(SeqsUpTo(Targets, MaxTargets), {None, Some("http://repo")}, Excludes))

Spec == Init /\ [][Next]_vars

-----------------------------------------------------------------------------
(* Observations used by the properties *)

Last(s) == s[Len(s)]

\* this step dispatched the target
Ran(target) == started' = Append(started, target)

\* this step's target returned without raising
Returned == exit' = "running" /\ pc' = pc + 1

\* tasks/main.yml: None when absent, Some(its plays) otherwise
Maintask(ts) == IF HasFile(ts, MAINTASK_PATH) THEN Some(FileDoc(ts, MAINTASK_PATH)) ELSE None

-----------------------------------------------------------------------------
(* C1: running dist twice in a row, with the manifest, the defaults file   *)
(* and the user's task files unchanged, leaves README.md and               *)
(* tasks/main.yml after the second run exactly as they were after the      *)
(* first run.                                                              *)
C1_DistTwiceSameArtifacts ==
    [][(/\ started # <<>>
        /\ Last(started) = "dist"
        /\ exit = "running"
        /\ Ran("dist")
        /\ Returned)
       => (readme' = readme /\ Maintask(tasks') = Maintask(tasks))]_vars

-----------------------------------------------------------------------------
(* C2: a step of dist or distclean leaves every excluded artifact path     *)
(* (README.md, tasks/main.yml, dist) as it was: same existence, same       *)
(* content; so does any sequence of them.                                  *)
C2_ExclusionRespected ==
    [][(Ran("dist") \/ Ran("distclean"))
       => (/\ README_PATH \in excluded_paths => readme' = readme
           /\ MAINTASK_PATH \in excluded_paths => Maintask(tasks') = Maintask(tasks)
           /\ DISTDIR \in excluded_paths => distdir' = distdir)]_vars

\* dist then distclean have run over a role whose three artifacts are the
\* user's own and excluded, and they are still there
C2_Witness ==
    /\ started = <<"dist", "distclean">>
    /\ exit = "running"
    /\ excluded_paths = {README_PATH, MAINTASK_PATH, DISTDIR}
    /\ manifest = Some(FullManifest)
    /\ readme = Some(UserReadme)
    /\ Maintask(tasks) = Some(UserMaintask)
    /\ distdir = Some({<<"notes.txt">>})

-----------------------------------------------------------------------------
\* an external process failed, or publish ran without a repository
HardFailed ==
    \/ \E i \in DOMAIN calls : calls[i].rc # 0
    \/ opts.repository = None /\ \E i \in DOMAIN started : started[i] = "publish"

C3_State ==
    /\ started = SubSeq(opts.TARGET, 1, Len(started))
    /\ exit = "running" => Len(started) = pc - 1
    /\ HardFailed =>
        /\ exit \notin {"running", "done"}
        /\ ExitStatus(exit) # 0
        /\ Len(started) = pc
        /\ \A i \in DOMAIN calls : i < Len(calls) => calls[i].rc = 0

(* C3: the targets are dispatched one at a time in command-line order; at  *)
(* the first hard failure (an external process returning non-zero, or      *)
(* publish without a repository) no later target is dispatched, the exit   *)
(* status is not zero, and what the earlier targets left on disk stays.    *)
C3_OrderedStopAtFirstFailure ==
    [][/\ C3_State'
       /\ Len(started') \in {Len(started), Len(started) + 1}
       /\ exit # "running" => started' = started
       /\ (HardFailed' /\ ~HardFailed) =>
            /\ manifest' = manifest
            /\ defaults' = defaults
            /\ tasks' = tasks
            /\ readme' = readme
            /\ distdir # None => (distdir' # None /\ distdir[1] \subseteq distdir'[1])]_vars

\* dist generated the artifacts, check's syntax checker failed, distclean was
\* never dispatched and the artifacts are still there
C3_Witness ==
    /\ opts.TARGET = <<"dist", "check", "distclean">>
    /\ started = <<"dist", "check">>
    /\ Last(calls).rc # 0
    /\ exit = "SystemExit"
    /\ context # None
    /\ readme # None
    /\ HasFile(tasks, MAINTASK_PATH)

-----------------------------------------------------------------------------
(* C4: on an initialized role with no exclusion, dist returns with         *)
(* README.md and tasks/main.yml present; distclean returns with README.md, *)
(* tasks/main.yml and dist absent, whether or not they existed, and with   *)
(* the manifest and every other file as they were.                         *)
C4_DistThenDistclean ==
    [][(manifest = Some(InitializedManifest) /\ opts.exclude = None)
       => (/\ Ran("dist") =>
                (Returned /\ readme' # None /\ HasFile(tasks', MAINTASK_PATH))
           /\ Ran("distclean") =>
                /\ Returned
                /\ readme' = None
                /\ ~HasFile(tasks', MAINTASK_PATH)
                /\ distdir' = None
                /\ manifest' = manifest
                /\ defaults' = defaults
                /\ \A i \in DOMAIN tasks :
                        tasks[i].path # MAINTASK_PATH => tasks[i] \in Range(tasks'))]_vars

\* init, dist (which rendered the README), distclean: the artifacts are gone
\* and the manifest is the one init wrote
C4_Witness ==
    /\ started = <<"init", "dist", "distclean">>
    /\ exit = "running"
    /\ opts.exclude = None
    /\ manifest = Some(InitializedManifest)
    /\ context # None
    /\ readme = None
    /\ ~HasFile(tasks, MAINTASK_PATH)
    /\ distdir = None

-----------------------------------------------------------------------------
-----------------------------------------------------------------------------
\* the target that just ran read a manifest field that is not there
NeededFieldMissing ==
    /\ started # <<>>
    /\ manifest # None
    /\ \/ Last(started) = "package" /\ manifest[1].version = None
       \/ /\ Last(started) = "publish"
          /\ opts.repository # None
          /\ manifest[1].version = None
       \/ /\ Last(started) = "dist"
          /\ {README_PATH, MAINTASK_PATH} \cap excluded_paths = {}
          /\ \/ manifest[1].galaxy_info = None
             \/ manifest[1].galaxy_info[1].description = None

(* C9: when the target that ended the run needed a manifest field that is  *)
(* missing (version for package and publish, galaxy_info or its            *)
(* description for dist), main ends by the SystemExit of its except        *)
(* clause, as it does for publish without a repository.                    *)
C9_MissingFieldIsDomainError ==
    (NeededFieldMissing /\ pc = Len(started)) => exit = "SystemExit"

-----------------------------------------------------------------------------
(* C10: once check_syntax has run the syntax checker, whatever it          *)
(* returned, the temporary workspace is gone and the working directory is  *)
(* the role directory again.                                               *)
C10_WorkspaceCleanedOnEveryPath ==
    (\E i \in DOMAIN calls : calls[i].cmd = "ansible-playbook")
        => (tmpdir = FALSE /\ cwd = "roledir")

-----------------------------------------------------------------------------
(* Command lines of one target, or of dist and one more *)

ShortCommands == {<<t>> : t \in Targets} \cup {<<"dist", t>> : t \in Targets}

\* all sequences over S of length 0..n
SeqsFromZero(S, n) == {<<>>} \cup SeqsUpTo(S, n)

\* all mappings from a subset of keys to vals
Mappings(keys, vals) == UNION {[S -> vals] : S \in SUBSET keys}

-----------------------------------------------------------------------------
(* The variable table over every defaults file and every manifest          *)
(* `variables`                                                             *)

VarNames == {"port", "user", "home"}

VarManifests ==
    {Some(Manifest(Some("1.0"),
                   Some([description |-> Some("web server"), platforms |-> None]),
                   v, None)) :
        v \in {None} \cup {Some(f) : f \in Mappings(VarNames, {"listening port", "run as"})}}

VarLayouts ==
    {Layout(d, <<>>, None, None) :
        d \in {None} \cup {Some(f) : f \in Mappings(VarNames, {"80", "www"})}}

InitVars ==
    InitWith(VarManifests, VarLayouts, {<<NameRule>>},
             Options(ShortCommands, {None}, {None, Some(<<MAINTASK_PATH>>)}))

SpecVars == InitVars /\ [][Next]_vars

(* C5: the table `variables` returns, as _generate_readme renders it, has  *)
(* exactly the names of the defaults file and of the manifest's            *)
(* `variables`; a name in both has its default and its description, a name *)
(* in the defaults only has only `default`, a name in the manifest only    *)
(* has only `description`; a missing defaults file or a manifest without   *)
(* `variables` is an empty mapping.                                        *)
C5_VariableMerge ==
    [][(Ran("dist") /\ context' # None /\ README_PATH \notin excluded_paths /\ Returned)
       => LET table == context'[1].variables
              D == IF defaults = None THEN <<>> ELSE defaults[1]
              V == IF manifest[1].variables = None THEN <<>> ELSE manifest[1].variables[1]
          IN  /\ DOMAIN table = DOMAIN D \cup DOMAIN V
              /\ \A k \in DOMAIN D \cap DOMAIN V :
                    table[k] = [default |-> <<D[k]>>, description |-> <<V[k]>>]
              /\ \A k \in DOMAIN D \ DOMAIN V :
                    table[k] = [default |-> <<D[k]>>, description |-> <<>>]
              /\ \A k \in DOMAIN V \ DOMAIN D :
                    table[k] = [default |-> <<>>, description |-> <<V[k]>>]]_vars

\* a table with a name from both sources, one from the defaults only and one
\* from the manifest only
C5_Witness ==
    /\ started = <<"dist">>
    /\ exit = "running"
    /\ context # None
    /\ defaults # None
    /\ DOMAIN defaults[1] = {"port", "user"}
    /\ manifest[1].variables # None
    /\ DOMAIN manifest[1].variables[1] = {"port", "home"}
    /\ context[1].variables["port"].default # None
    /\ context[1].variables["port"].description # None
    /\ context[1].variables["user"].description = None
    /\ context[1].variables["home"].default = None

-----------------------------------------------------------------------------
(* The inclusion list over every platforms list                            *)

MaxPlatforms == 2

PlatformManifests ==
    {Some(Manifest(Some("1.0"), Some([description |-> Some("web server"), platforms |-> p]),
                   None, inc)) :
        p \in {None} \cup {Some(s) : s \in SeqsFromZero({Debian, Ubuntu}, MaxPlatforms)},
        inc \in {None, Some([k \in {ConfigPath} |-> "never"]),
                 Some([k \in {InstallPath} |-> "ansible_os_family == 'Debian'"])}}

InitGen ==
    InitWith(PlatformManifests,
             Layouts \cup {Layout(None, <<File(InstallPath, InstallDoc)>>, None, None)},
             {<<NameRule>>},
             Options(ShortCommands, {None}, {None, Some(<<MAINTASK_PATH>>)}))

SpecGen == InitGen /\ [][Next]_vars

IsAssertion(play) == play.fail # None

\* the names between the quotes of "ansible_distribution not in ['a', 'b']"
GuardNames(when) == [k \in 1..((Len(when) - 2) \div 4) |-> when[4 * k]]

(* C6: the inclusion list dist writes has the platform-assertion play if   *)
(* and only if the manifest's platforms is not empty; it is then the first *)
(* entry and the only one, and the names in its guard are the `name` of    *)
(* each platform entry in manifest order.                                  *)
C6_PlatformAssertion ==
    [][(/\ Ran("dist")
        /\ MAINTASK_PATH \notin excluded_paths
        /\ Returned \/ tasks' # tasks)
       => LET doc == FileDoc(tasks', MAINTASK_PATH)
              gi == manifest[1].galaxy_info[1]
              ptfs == IF gi.platforms = None THEN <<>> ELSE gi.platforms[1]
          IN  /\ (\E i \in DOMAIN doc : IsAssertion(doc[i])) <=> ptfs # <<>>
              /\ ptfs # <<>> =>
                    /\ IsAssertion(doc[1])
                    /\ \A i \in DOMAIN doc : i > 1 => ~IsAssertion(doc[i])
                    /\ doc[1].when # None
                    /\ doc[1].when[1][1] = "ansible_distribution not in "
                    /\ doc[1].when[1][2] = "["
                    /\ Last(doc[1].when[1]) = "]"
                    /\ Len(doc[1].when[1]) = 2 + 4 * Len(ptfs)
                    /\ GuardNames(doc[1].when[1]) = [i \in DOMAIN ptfs |-> ptfs[i].name]]_vars

\* platforms [Debian, Ubuntu] and one task file, tasks/install.yml, with no
\* include condition: the assertion play naming both, then the bare include
C6_Witness ==
    /\ started = <<"dist">>
    /\ exit = "running"
    /\ manifest[1].galaxy_info[1].platforms = Some(<<Debian, Ubuntu>>)
    /\ manifest[1].inconditions = None
    /\ Len(tasks) = 2
    /\ Maintask(tasks) # None
    /\ Len(Maintask(tasks)[1]) = 2
    /\ Maintask(tasks)[1][1].when =
          Some(<<"ansible_distribution not in ", "[", "'", "Debian", "'", ", ",
                 "'", "Ubuntu", "'", "]">>)
    /\ Maintask(tasks)[1][2] = Play(None, None, None, Some(InstallPath), None)

-----------------------------------------------------------------------------
(* lint over every tasks tree and every rule registry                      *)

MaxPlays == 2
MaxRules == 2

LintPlays ==
    {Play(Some("install package"), None, None, None, Some("apt")),
     Play(None, None, Some(<<"start">>), None, Some("service")),
     Play(Some("install package"), None, Some(<<"start">>), None, None)}

LintDocs == SeqsFromZero(LintPlays, MaxPlays)

LintLayouts ==
    {Layout(None,
            <<File(ConfigPath, <<p>>), File(InstallPath, d), File(NotesPath, d)>>,
            None, None) : p \in LintPlays, d \in LintDocs}
    \cup {Layout(None, <<File(InstallPath, d)>>, None, None) : d \in LintDocs}

Registries == SeqsFromZero({NameRule, ActionRule, WhenRule}, MaxRules)

InitLint ==
    InitWith({Some(InitializedManifest)}, LintLayouts, Registries,
             Options(ShortCommands, {None}, {None}))

SpecLint == InitLint /\ [][Next]_vars

\* the (file, play, rule) triples whose predicate is false
Violations ==
    LET triples == UNION {(({f} \X DOMAIN tasks[f].doc) \X DOMAIN registry) : f \in DOMAIN tasks}
    IN  {<<t[1][1], t[1][2], t[2]>> : t \in
            {t \in triples :
                /\ tasks[t[1][1]].path.ext = ".yml"
                /\ tasks[t[1][1]].path.dir[1] = "tasks"
                /\ \E k \in registry[t[2]].requires : tasks[t[1][1]].doc[t[1][2]][k] = None}}

WarningOf(t) ==
    LET play == tasks[t[1]].doc[t[2]]
    IN  [path |-> tasks[t[1]].path,
         name |-> IF play.name = None THEN [text |-> "play#", idx |-> t[2]]
                  ELSE [text |-> play.name[1], idx |-> 0],
         message |-> registry[t[3]].message]

(* C8: when the syntax checker returned success, check returns, and the    *)
(* warnings it wrote are, for every .yml file under tasks/ at any depth,   *)
(* every play of it and every rule of the registry whose predicate is      *)
(* false of the play, exactly one warning, and no other; the warning names *)
(* the file, the play by its name or by play#<its 1-based index>, and the  *)
(* rule's message.                                                         *)
C8_LintNeverAborts ==
    [][(Ran("check") /\ Last(calls').rc = 0)
       => LET written == SubSeq(stderr', Len(stderr) + 1, Len(stderr'))
          IN  /\ Returned
              /\ SubSeq(stderr', 1, Len(stderr)) = stderr
              /\ \A w \in Range(written) \cup {WarningOf(t) : t \in Violations} :
                    Cardinality({j \in DOMAIN written : written[j] = w})
                        = Cardinality({t \in Violations : WarningOf(t) = w})]_vars

\* a file two levels down whose unnamed play breaks a rule, and a file with
\* two plays that break both rules of the registry, all reported
C8_Witness ==
    /\ started = <<"check">>
    /\ exit = "running"
    /\ Len(registry) = 2
    /\ Len(tasks) = 3
    /\ Len(stderr) >= 4
    /\ \E i \in DOMAIN stderr : stderr[i].path = ConfigPath /\ stderr[i].name.text = "play#"
    /\ \E i \in DOMAIN stderr : stderr[i].path = InstallPath /\ stderr[i].name.idx = 2
    /\ \A i \in DOMAIN stderr : stderr[i].path # NotesPath

====
